---- MODULE Spec2Model ----
(***************************************************************************)
(* ModelCheckpointTopN (src/model_checkpoint_top_n.py): a Keras callback   *)
(* that keeps the n_models best-scoring checkpoints.  The callback's state *)
(* is the heap `tracker`, the counter `epochs_since_last_save` and the     *)
(* configuration fixed by __init__; its collaborators are model.save /     *)
(* model.save_weights ("persist") and os.remove ("deleteFile"), whose      *)
(* effect on the checkpoint directory is the variable `files`.             *)
(*                                                                         *)
(* A record of the tracker is the tuple <<score, epoch, path>> with        *)
(* score = current * coef.  Metric values are real numbers, integers here  *)
(* (the code only multiplies them by +-1.0 and compares them); NaN is not  *)
(* among them.  The path template is                                       *)
(* `<head>/<model_name>_{epoch:d}<ext>` with no further placeholders, so a *)
(* path is identified by the decimal digits of its epoch number.           *)
(***************************************************************************)
EXTENDS Integers, Sequences, FiniteSets, TLC

\* ---- bounds of the model -------------------------------------------------
MaxModels == 2      \* n_models ranges over 1..MaxModels
MaxPeriod == 2      \* period ranges over 1..MaxPeriod
MaxEpoch == 3       \* the epoch argument ranges over 0..MaxEpoch
MaxMetric == 3      \* logs[monitor] ranges over 1..MaxMetric
MaxCalls == 4       \* on_epoch_end is called at most MaxCalls times
MaxIncEpoch == 4    \* under SpecInc the epoch argument ranges over 0..MaxIncEpoch
MaxFailures == 2    \* at most MaxFailures collaborator calls fail for outside reasons

\* ---- inputs ----------------------------------------------------------------
\* monitor names as character sequences (substring tests in __init__)
ValLoss == <<"v", "a", "l", "_", "l", "o", "s", "s">>
ValAcc == <<"v", "a", "l", "_", "a", "c", "c">>
Fmeasure == <<"f", "m", "e", "a", "s", "u", "r", "e">>
Acc == <<"a", "c", "c">>
ValFmeasure == <<"v", "a", "l", "_">> \o Fmeasure
Monitors == {ValLoss, ValAcc, Fmeasure, ValFmeasure}
Modes == {"auto", "min", "max", "best"}
\* logs as seen by logs.get(monitor): <<>> when the key is absent, <<v>> otherwise
LogsSet == {<<>>} \cup {<<v>> : v \in 1..MaxMetric}
None == <<>>

VARIABLES
    mode,                    \* the mode argument of __init__
    monitor,                 \* self.monitor
    coef,                    \* self.coef
    modeWarning,             \* __init__ has warned that the mode is unknown
    n_models,                \* self.n_models
    period,                  \* self.period
    epochs_since_last_save,  \* self.epochs_since_last_save
    tracker,                 \* self.tracker, a heapq list
    pc,                      \* position inside on_epoch_end: "idle", "remove", "save"
    discard,                 \* local `discard` of on_epoch_end while a replacement runs
    filepath,                \* local `filepath` of on_epoch_end while a save is pending
    files,                   \* paths of the files that exist in the checkpoint directory
    persisted,               \* paths passed to model.save / save_weights so far
    deleteLog,               \* paths passed to os.remove so far, in order
    history,                 \* records built by the evaluated calls so far (kept under SpecInc)
    lastEpoch,               \* epoch argument of the last call, -1 before the first (kept under SpecInc)
    call,                    \* the current (or last) call of on_epoch_end
    failures,                \* number of collaborator calls that failed for outside reasons
    lastMiss,                \* index of the last call that reached the interval without the metric
    lastReached              \* index of the last call that reached the interval, 0 before the first

vars == <<mode, monitor, coef, n_models, period, epochs_since_last_save, tracker,
          pc, discard, filepath, files, persisted, deleteLog, history, lastEpoch,
          call, failures, lastMiss, modeWarning, lastReached>>

\* ---- strings ---------------------------------------------------------------
\* `sub in s`
Contains(s, sub) ==
    \E i \in 0..(Len(s) - Len(sub)) : SubSeq(s, i + 1, i + Len(sub)) = sub

\* a test for the prefix anywhere in the string
StartsWith_Anywhere(s, pre) ==
    \E i \in 0..(Len(s) - Len(pre)) : SubSeq(s, i + 1, i + Len(pre)) = pre

\* s.startswith(pre)
StartsWith(s, pre) ==
    Len(s) >= Len(pre) /\ SubSeq(s, 1, Len(pre)) = pre

RECURSIVE Digits(_)
\* '{epoch:d}'.format(epoch=n): the decimal digits of n
Digits(n) == IF n < 10 THEN <<n>> ELSE Append(Digits(n \div 10), n % 10)

\* a template without the {epoch:d} suffix of line 49
FormatPath_NoSuffix(e) == <<0>>

\* self.filepath.format(epoch=e): the part of the path that varies
FormatPath(e) == Digits(e)

RECURSIVE StrLess(_, _)
\* str.__lt__ on two formatted paths (same head, model name and extension)
StrLess(p, q) ==
    IF p = <<>> THEN q # <<>>
    ELSE IF q = <<>> THEN FALSE
    ELSE IF Head(p) # Head(q) THEN Head(p) < Head(q)
    ELSE StrLess(Tail(p), Tail(q))

\* ---- __init__ --------------------------------------------------------------
\* the direction coefficient with the signs of min and max exchanged
Coef_Swapped(m, mon) ==
    LET md == IF m \notin {"auto", "min", "max"} THEN "auto" ELSE m
    IN  IF md = "min" THEN 1
        ELSE IF md = "max" THEN -1
        ELSE IF Contains(mon, <<"a", "c", "c">>) \/ StartsWith(mon, <<"f", "m", "e", "a", "s", "u", "r", "e">>) THEN 1
        ELSE -1

\* lines 56-58: the mode is none of auto, min, max
UnknownMode(m) == m \notin {"auto", "min", "max"}

\* lines 56-69: the direction coefficient
Coef(m, mon) ==
    LET md == IF m \notin {"auto", "min", "max"} THEN "auto" ELSE m
    IN  IF md = "min" THEN -1
        ELSE IF md = "max" THEN 1
        ELSE IF Contains(mon, Acc) \/ StartsWith(mon, Fmeasure) THEN 1
        ELSE -1

\* ---- tuples and heapq ------------------------------------------------------
\* a comparison of the scores alone
TupleLess_ScoreOnly(a, b) == a[1] < b[1]

\* tuple.__lt__ on (score, epoch, path)
TupleLess(a, b) ==
    \/ a[1] < b[1]
    \/ a[1] = b[1] /\ a[2] < b[2]
    \/ a[1] = b[1] /\ a[2] = b[2] /\ StrLess(a[3], b[3])

\* the candidate tuple (current*self.coef, epoch+1, filepath)
Candidate(current, epoch) == <<current * coef, epoch + 1, FormatPath(epoch + 1)>>

RECURSIVE SiftDownLoop(_, _, _, _)
\* heapq._siftdown's loop; positions are 0-based, heap[pos] is h[pos + 1]
SiftDownLoop(h, startpos, pos, newitem) ==
    IF pos > startpos
    THEN LET parentpos == (pos - 1) \div 2
             parent == h[parentpos + 1]
         IN  IF TupleLess(newitem, parent)
             THEN SiftDownLoop([h EXCEPT ![pos + 1] = parent], startpos, parentpos, newitem)
             ELSE [h EXCEPT ![pos + 1] = newitem]
    ELSE [h EXCEPT ![pos + 1] = newitem]

SiftDown(h, startpos, pos) == SiftDownLoop(h, startpos, pos, h[pos + 1])

RECURSIVE SiftUpLoop(_, _, _, _)
\* heapq._siftup's loop followed by its call of _siftdown
SiftUpLoop(h, startpos, pos, newitem) ==
    LET endpos == Len(h)
        leftpos == 2 * pos + 1
        rightpos == leftpos + 1
        childpos == IF rightpos < endpos /\ ~TupleLess(h[leftpos + 1], h[rightpos + 1])
                    THEN rightpos ELSE leftpos
    IN  IF leftpos < endpos
        THEN SiftUpLoop([h EXCEPT ![pos + 1] = h[childpos + 1]], startpos, childpos, newitem)
        ELSE SiftDown([h EXCEPT ![pos + 1] = newitem], startpos, pos)

SiftUp(h, pos) == SiftUpLoop(h, pos, pos, h[pos + 1])

\* heappush without the sift: a plain append
HeapPush_NoSift(h, item) == Append(h, item)

\* heapq.heappush(heap, item): the new heap
HeapPush(h, item) == SiftDown(Append(h, item), 0, Len(h))

\* heapreplace for heappushpop: heap[0] is displaced whatever the item
PushPopSwaps_Always(h, item) == Len(h) > 0

\* heappushpop with the comparison reversed
PushPopSwaps_Reversed(h, item) == Len(h) > 0 /\ TupleLess(item, h[1])

\* heapq.heappushpop(heap, item): does the item displace heap[0]?
PushPopSwaps(h, item) == Len(h) > 0 /\ TupleLess(h[1], item)

\* heapq.heappushpop(heap, item): the returned item
HeapPushPopItem(h, item) == IF PushPopSwaps(h, item) THEN h[1] ELSE item

\* heapq.heappushpop(heap, item): the new heap
HeapPushPopHeap(h, item) ==
    IF PushPopSwaps(h, item) THEN SiftUp([h EXCEPT ![1] = item], 0) ELSE h

\* the interval test with > for >=
IntervalReached_Strict(c, p) == c > p

\* line 77: the interval test, on the incremented counter
IntervalReached(c, p) == c >= p

\* the counter reset to 1 instead of 0
CounterAfter_ResetToOne(c, p) == IF c >= p THEN 1 ELSE c

\* the counter without the reset of line 78
CounterAfter_NoReset(c, p) == c

\* lines 76-78: the counter after the call, c being the incremented counter
CounterAfter(c, p) == IF IntervalReached(c, p) THEN 0 ELSE c

\* no capacity test: every candidate is pushed
PoolFull_Never(h, n) == FALSE

\* the capacity test with > for >=
PoolFull_OffByOne(h, n) == Len(h) > n

\* line 85: the pool is full
PoolFull(h, n) == Len(h) >= n

\* the replacement test on the scores alone
Replaced_ScoreOnly(d, cand) == d[1] # cand[1]

\* line 87: a replacement took place
Replaced(d, cand) == d # cand

\* a replacement that saves the candidate without removing the old file first
AfterSwap_SaveFirst == "save"

\* lines 87-98: in a replacement os.remove (line 94) comes first, then the save
AfterSwap == "remove"

\* os.remove that leaves the file in place
Unlink_Noop(fs, p) == fs

\* line 94: the directory after os.remove(p) has returned
Unlink(fs, p) == fs \ {p}

\* lines 96, 98, 112, 114: the directory after a save to p with overwrite=True
Write(fs, p) == fs \cup {p}

\* ---- state -----------------------------------------------------------------
NoCall == [k |-> 0, present |-> FALSE, reached |-> FALSE, cand |-> None,
           discard |-> None, pre |-> <<>>, fs |-> {}, persists |-> <<>>,
           deletes |-> <<>>, raised |-> FALSE]

Init ==
    /\ mode \in Modes
    /\ monitor \in Monitors
    /\ coef = Coef(mode, monitor)
    /\ modeWarning = UnknownMode(mode)
    /\ n_models \in 1..MaxModels
    /\ period \in 1..MaxPeriod
    /\ epochs_since_last_save = 0
    /\ tracker = <<>>
    /\ pc = "idle"
    /\ discard = None
    /\ filepath = None
    /\ files = {}
    /\ persisted = {}
    /\ deleteLog = <<>>
    /\ history = {}
    /\ call = NoCall
    /\ lastEpoch = -1
    /\ failures = 0
    /\ lastMiss = 0
    /\ lastReached = 0

config == <<mode, monitor, coef, modeWarning, n_models, period>>

\* ---- on_epoch_end ----------------------------------------------------------
\* lines 75-87 and 105: everything up to the first collaborator call
EpochEnd(epoch, logs) ==
    LET counter == epochs_since_last_save + 1
        reached == IntervalReached(counter, period)
        present == logs # <<>>
        cand == Candidate(logs[1], epoch)
        full == PoolFull(tracker, n_models)
        ret == HeapPushPopItem(tracker, cand)
        base == [k |-> call.k + 1, present |-> present, reached |-> reached,
                 cand |-> None, discard |-> None, pre |-> tracker, fs |-> files,
                 persists |-> <<>>, deletes |-> <<>>, raised |-> FALSE]
    IN
    /\ pc = "idle"
    /\ call.k < MaxCalls
    /\ epochs_since_last_save' = CounterAfter(counter, period)
    /\ lastMiss' = IF reached /\ ~present THEN call.k + 1 ELSE lastMiss
    /\ lastReached' = IF reached THEN call.k + 1 ELSE lastReached
    /\ IF ~reached \/ ~present
       THEN /\ call' = base
            /\ UNCHANGED <<tracker, pc, discard, filepath>>
       ELSE /\ IF full
               THEN /\ tracker' = HeapPushPopHeap(tracker, cand)
                    /\ call' = [base EXCEPT !.cand = cand, !.discard = ret]
                    /\ IF Replaced(ret, cand)
                       THEN /\ pc' = AfterSwap
                            /\ discard' = ret
                            /\ filepath' = cand[3]
                       ELSE UNCHANGED <<pc, discard, filepath>>
               ELSE /\ tracker' = HeapPush(tracker, cand)
                    /\ call' = [base EXCEPT !.cand = cand]
                    /\ pc' = "save"
                    /\ filepath' = cand[3]
                    /\ UNCHANGED discard
    /\ UNCHANGED <<config, files, persisted, deleteLog, failures>>

\* on_epoch_end called by the training loop with any epoch index
OnEpochEnd(epoch, logs) ==
    /\ EpochEnd(epoch, logs)
    /\ UNCHANGED <<history, lastEpoch>>

\* on_epoch_end called with an epoch index above all earlier ones; the
\* candidate of an evaluated call is added to the history
OnEpochEndInc(epoch, logs) ==
    /\ epoch > lastEpoch
    /\ EpochEnd(epoch, logs)
    /\ lastEpoch' = epoch
    /\ history' = IF call'.cand # None THEN history \cup {call'.cand} ELSE history

\* os.remove with a rollback that pushes the old record back when it raises
Remove_PushBack(ok) ==
    /\ pc = "remove"
    /\ ok \/ failures < MaxFailures
    /\ deleteLog' = Append(deleteLog, discard[3])
    /\ discard' = None
    /\ IF ok /\ discard[3] \in files
       THEN /\ files' = Unlink(files, discard[3])
            /\ call' = [call EXCEPT !.deletes = Append(@, discard[3])]
            /\ pc' = "save"
            /\ UNCHANGED <<filepath, failures, tracker>>
       ELSE /\ call' = [call EXCEPT !.deletes = Append(@, discard[3]), !.raised = TRUE]
            /\ pc' = "idle"
            /\ filepath' = None
            /\ failures' = IF ok THEN failures ELSE failures + 1
            /\ tracker' = HeapPush(tracker, discard)
            /\ UNCHANGED files
    /\ UNCHANGED <<config, epochs_since_last_save, persisted, history,
                   lastEpoch, lastMiss, lastReached>>

\* line 94: os.remove(discard[2]); it raises when the file does not exist
\* or, for outside reasons, when ok is FALSE
Remove(ok) ==
    /\ pc = "remove"
    /\ ok \/ failures < MaxFailures
    /\ deleteLog' = Append(deleteLog, discard[3])
    /\ discard' = None
    /\ IF ok /\ discard[3] \in files
       THEN /\ files' = Unlink(files, discard[3])
            /\ call' = [call EXCEPT !.deletes = Append(@, discard[3])]
            /\ pc' = "save"
            /\ UNCHANGED <<filepath, failures>>
       ELSE /\ call' = [call EXCEPT !.deletes = Append(@, discard[3]), !.raised = TRUE]
            /\ pc' = "idle"
            /\ filepath' = None
            /\ failures' = IF ok THEN failures ELSE failures + 1
            /\ UNCHANGED files
    /\ UNCHANGED <<config, epochs_since_last_save, tracker, persisted, history,
                   lastEpoch, lastMiss, lastReached>>

\* lines 95-98 and 111-114: model.save(filepath, overwrite=True) or
\* model.save_weights(filepath, overwrite=True); it raises when ok is FALSE
Save(ok) ==
    /\ pc = "save"
    /\ ok \/ failures < MaxFailures
    /\ persisted' = persisted \cup {filepath}
    /\ filepath' = None
    /\ pc' = "idle"
    /\ IF ok
       THEN /\ files' = Write(files, filepath)
            /\ call' = [call EXCEPT !.persists = Append(@, filepath)]
            /\ UNCHANGED failures
       ELSE /\ call' = [call EXCEPT !.persists = Append(@, filepath), !.raised = TRUE]
            /\ failures' = failures + 1
            /\ UNCHANGED files
    /\ UNCHANGED <<config, epochs_since_last_save, tracker, discard, deleteLog,
                   history, lastEpoch, lastMiss, lastReached>>

Next ==
    \/ \E epoch \in 0..MaxEpoch, logs \in LogsSet : OnEpochEnd(epoch, logs)
    \/ \E ok \in BOOLEAN : Remove(ok)
    \/ \E ok \in BOOLEAN : Save(ok)

\* the callback constructed with an explicit direction, then driven with any
\* epoch indices and with collaborators that may fail
InitDirected == Init /\ mode \in {"min", "max"} /\ monitor = ValLoss

Spec == InitDirected /\ [][Next]_vars

\* runs with strictly increasing epoch indices whose collaborators never fail
NextInc ==
    \/ \E epoch \in 0..MaxIncEpoch, logs \in LogsSet : OnEpochEndInc(epoch, logs)
    \/ Remove(TRUE)
    \/ Save(TRUE)

SpecInc == Init /\ [][NextInc]_vars

\* ---- vocabulary of the properties ------------------------------------------
Range(s) == {s[i] : i \in 1..Len(s)}

\* number of occurrences of x in the sequence s
Count(s, x) == Cardinality({i \in 1..Len(s) : s[i] = x})

\* the retained set and the paths of its records
Retained == Range(tracker)
PathsOf(h) == {h[i][3] : i \in 1..Len(h)}

\* the total order of the records: orientedScore ascending, then epoch
\* ascending, then path; paths of equal length compare digit by digit
Worse(a, b) ==
    \/ a[1] < b[1]
    \/ a[1] = b[1] /\ a[2] < b[2]
    \/ /\ a[1] = b[1] /\ a[2] = b[2] /\ a[3] # b[3]
       /\ \E i \in 1..Len(b[3]) :
             /\ i <= Len(a[3]) => a[3][i] < b[3][i]
             /\ \A j \in 1..(i - 1) : j <= Len(a[3]) /\ a[3][j] = b[3][j]

\* the minimum of a non-empty sequence of records under the total order
MinOf(h) == CHOOSE r \in Range(h) : \A q \in Range(h) : ~Worse(q, r)

\* the m greatest records of the set S under the total order
Best(S, m) == {r \in S : Cardinality({q \in S : Worse(r, q)}) < m}

Min2(a, b) == IF a < b THEN a ELSE b

\* the last call built a candidate / replaced the minimum by it
Evaluated == call.k > 0 /\ call.reached /\ call.present
Evicting == Evaluated /\ call.discard # None /\ call.discard # call.cand
Returned == pc = "idle" /\ call.k > 0 /\ ~call.raised

\* ---- properties -----------------------------------------------------------

\* C1: after every call of on_epoch_end, whatever the metric values, the
\* interval and the capacity n_models >= 1, the tracker holds at most
\* n_models records.
C1_TrackerWithinCapacity == Len(tracker) <= n_models

\* a call on a full pool has replaced the minimum and the pool is still full
C1_Witness ==
    /\ Returned /\ Evicting
    /\ Len(call.pre) = n_models /\ Len(tracker) = n_models /\ n_models = MaxModels

\* C2: with strictly increasing epoch indices and collaborators that do not
\* fail, the retained set is exactly the min(n_models, k) greatest records,
\* under the total order (orientedScore, epoch, path), of the k candidate
\* records built so far by the evaluated calls.
C2_RetainsBest ==
    /\ Len(tracker) = Min2(n_models, Cardinality(history))
    /\ Retained = Best(history, Min2(n_models, Cardinality(history)))

\* more candidates than capacity were built, some of them dropped, and the
\* pool holds two records with the same score
C2_Witness ==
    /\ pc = "idle" /\ n_models = 2
    /\ Cardinality(history) >= n_models + 2
    /\ deleteLog # <<>>
    /\ \E r \in history \ Retained : \E q \in Retained : r[1] = q[1]

\* C3: at every point of every execution, the point inside a replacement
\* between os.remove and the save of the candidate included, at most
\* n_models checkpoint files exist.
C3_LiveFilesWithinCapacity == Cardinality(files) <= n_models

\* inside a replacement: the old minimum's file is removed, the candidate's
\* file is not yet written
C3_Witness ==
    /\ pc = "save" /\ call.deletes # <<>> /\ n_models = MaxModels
    /\ Cardinality(files) = n_models - 1

\* C4: after every completed call (strictly increasing epoch indices,
\* collaborators that do not fail) the files that exist are exactly the
\* paths of the retained records, one file per record.
C4_FilesMatchRetained ==
    pc = "idle" =>
        /\ files = PathsOf(tracker)
        /\ Cardinality(files) = Len(tracker)

\* a record has been evicted and its file is gone
C4_Witness ==
    /\ pc = "idle" /\ Evicting /\ Len(tracker) = MaxModels
    /\ call.discard[3] \notin files /\ call.cand[3] \in files

\* C5: (as claimed) whatever the epoch indices, repeated ones included, every
\* path passed to os.remove was passed to a save in an earlier step, and no
\* path is passed to os.remove more than once; stated for the runs in which
\* no collaborator call fails for outside reasons.
C5_DeleteOncePersistedBefore ==
    [][(failures' = 0 /\ deleteLog' # deleteLog) =>
           /\ deleteLog'[Len(deleteLog')] \in persisted
           /\ deleteLog'[Len(deleteLog')] \notin Range(deleteLog)]_vars

\* C6: (as claimed) a record is evicted only by a candidate whose
\* orientedScore is strictly greater than its own.
C6_EvictedByStrictlyGreaterScore ==
    Evicting => call.cand[1] > call.discard[1]

\* C6: (amended) a record is evicted only by a candidate that is strictly
\* greater under the total order (orientedScore, epoch, path): the evicted
\* record was retained, the candidate's orientedScore is not lower than the
\* evicted record's, and at equal scores the candidate's (epoch, path) is
\* the greater one.
C6_EvictedByGreaterRecord ==
    Evicting =>
        /\ call.discard \in Range(call.pre)
        /\ Worse(call.discard, call.cand)
        /\ call.cand[1] >= call.discard[1]

\* a candidate has evicted a record of the same score and the file is removed
C6_Witness ==
    /\ Returned /\ Evicting
    /\ call.cand[1] = call.discard[1]
    /\ \A r \in Range(call.pre) : r[2] < call.cand[2]
    /\ call.deletes = <<call.discard[3]>>
    /\ call.discard[3] \notin files

\* the three outcomes of an evaluated call
Admitted ==
    /\ \A x \in Range(tracker) \cup Range(call.pre) \cup {call.cand} :
          Count(tracker, x) = Count(call.pre, x) + (IF x = call.cand THEN 1 ELSE 0)
    /\ call.persists = <<call.cand[3]>>
    /\ call.deletes = <<>>

AdmittedWithEviction ==
    LET m == MinOf(call.pre)
    IN  /\ call.pre # <<>>
        /\ \A x \in Range(tracker) \cup Range(call.pre) \cup {call.cand} :
              Count(tracker, x) = Count(call.pre, x) + (IF x = call.cand THEN 1 ELSE 0)
                                                     - (IF x = m THEN 1 ELSE 0)
        /\ call.deletes = <<m[3]>>
        /\ call.persists = <<call.cand[3]>>

Discarded ==
    /\ tracker = call.pre
    /\ call.persists = <<>>
    /\ call.deletes = <<>>

C8_EveryPeriodthCall ==
    [][call'.k = call.k + 1 =>
           /\ call'.reached <=> (call'.k % period = 0)
           /\ ~call'.reached =>
                 /\ epochs_since_last_save' = epochs_since_last_save + 1
                 /\ UNCHANGED <<config, tracker, pc, discard, filepath, files,
                                persisted, deleteLog>>]_vars

\* a call between two evaluations, with a record retained and the metric present
C8_Witness ==
    /\ period = MaxPeriod /\ call.k = period + 1 /\ ~call.reached /\ call.present
    /\ Len(tracker) = 1 /\ files # {} /\ epochs_since_last_save = 1

\* C9: a call that reaches the interval without the metric resets the
\* counter, leaves the tracker alone and calls no collaborator; it consumes
\* the interval: after it, the calls that reach the interval are those a
\* multiple of period later.
C9_MissingMetricConsumesInterval ==
    /\ (pc = "idle" /\ call.k > 0 /\ call.reached /\ ~call.present) =>
          /\ lastMiss = call.k
          /\ epochs_since_last_save = 0
          /\ tracker = call.pre
          /\ call.persists = <<>> /\ call.deletes = <<>>
    /\ (lastMiss > 0 /\ call.k > lastMiss) =>
          (call.reached <=> ((call.k - lastMiss) % period = 0))

\* the metric was missing at the period-th call and the next evaluation is
\* the one period calls later
C9_Witness ==
    /\ period = MaxPeriod /\ lastMiss = period /\ call.k = 2 * period
    /\ call.reached /\ call.present /\ Len(tracker) = 1

\* the raw metric value of a record, as __show_tracked prints it
Raw(r) == r[1] * coef

\* C10: on a full pool, with mode min an evicting candidate's raw value is
\* not greater than the evicted record's and a discarded candidate's raw
\* value is not lower than any retained record's; with mode max both
\* inequalities are reversed.
C10_DirectionOfPreference ==
    (Evaluated /\ Len(call.pre) >= n_models) =>
        /\ mode = "min" =>
              /\ Evicting => Raw(call.cand) <= Raw(call.discard)
              /\ ~Evicting => \A r \in Range(call.pre) : Raw(call.cand) >= Raw(r)
        /\ mode = "max" =>
              /\ Evicting => Raw(call.cand) >= Raw(call.discard)
              /\ ~Evicting => \A r \in Range(call.pre) : Raw(call.cand) <= Raw(r)

\* Scenarios A and B with the raw values 3, 1, 2, 3 for 0.5, 0.3, 0.4, 0.6:
\* capacity 2, mode min; the third call evicts the first record, the fourth
\* candidate is discarded
C10_Witness ==
    /\ mode = "min" /\ n_models = 2 /\ period = 1 /\ call.k = 4 /\ Returned
    /\ Retained = {<<-2, 3, <<3>>>>, <<-1, 2, <<2>>>>}
    /\ call.cand = <<-3, 4, <<4>>>> /\ call.discard = call.cand
    /\ deleteLog = << <<1>> >>
    /\ persisted = {<<1>>, <<2>>, <<3>>}
    /\ files = {<<2>>, <<3>>}

\* the monitor name holds the letters a, c, c in a row
HoldsAcc(mon) ==
    \E i \in 1..(Len(mon) - 2) : mon[i] = "a" /\ mon[i + 1] = "c" /\ mon[i + 2] = "c"

\* the monitor name begins with the letters of fmeasure
BeginsWithFmeasure(mon) ==
    /\ Len(mon) >= 8
    /\ <<mon[1], mon[2], mon[3], mon[4], mon[5], mon[6], mon[7], mon[8]>>
          = <<"f", "m", "e", "a", "s", "u", "r", "e">>

\* C11: the direction coefficient is the one fixed by the constructor in
\* every state, whatever calls were made: -1 for mode min, +1 for mode max,
\* and for any other mode (auto, or an unknown one, which is warned about)
\* +1 if the monitor name contains "acc" or starts with "fmeasure", else -1.
C11_DirectionFixedAtConstruction ==
    /\ mode = "min" => coef = -1
    /\ mode = "max" => coef = 1
    /\ mode \notin {"min", "max"} =>
          coef = (IF HoldsAcc(monitor) \/ BeginsWithFmeasure(monitor) THEN 1 ELSE -1)
    /\ modeWarning <=> mode \notin {"auto", "min", "max"}

\* an unknown mode, a monitor that holds fmeasure without starting with it,
\* and calls made, one of them a replacement
C11_Witness ==
    /\ mode = "best" /\ monitor = ValFmeasure /\ coef = -1 /\ modeWarning
    /\ pc = "idle" /\ Evicting /\ call.k >= 3

\* the tracker is the pre-call tracker with the returned record taken out
\* and the candidate put in
Swapped ==
    \A x \in Range(tracker) \cup Range(call.pre) \cup {call.cand} :
        Count(tracker, x) = Count(call.pre, x) + (IF x = call.cand THEN 1 ELSE 0)
                                               - (IF x = call.discard THEN 1 ELSE 0)

\* C12: the record dropped by a replacement is the minimum of the pre-call
\* retained set under the total order: among the records of lowest
\* orientedScore the one of smallest epoch; its path is the one passed to
\* os.remove.
C12_EvictsMinimum ==
    Evicting =>
        /\ call.discard = MinOf(call.pre)
        /\ \A r \in Range(call.pre) :
              \/ call.discard[1] < r[1]
              \/ call.discard[1] = r[1] /\ call.discard[2] <= r[2]
        /\ call.deletes # <<>> => call.deletes = <<MinOf(call.pre)[3]>>
        /\ pc = "remove" => discard = MinOf(call.pre)

\* two retained records shared the lowest score and the older one was
\* evicted and its file removed
C12_Witness ==
    /\ Returned /\ Evicting
    /\ \E r \in Range(call.pre) : r[1] = call.discard[1] /\ r[2] > call.discard[2]
    /\ call.deletes = <<call.discard[3]>> /\ call.discard[3] \notin files

\* C13: a call invokes the save at most once and os.remove at most once; a
\* call that invoked os.remove and returned has also invoked the save; a
\* save without os.remove happens only when the pool was not full.
C13_AtMostOneSaveOneRemove ==
    /\ Len(call.persists) <= 1
    /\ Len(call.deletes) <= 1
    /\ (Returned /\ call.deletes # <<>>) => call.persists # <<>>
    /\ (call.persists # <<>> /\ call.deletes = <<>>) => Len(call.pre) < n_models

\* a replacement that returned, with one os.remove and one save, on a pool
\* that had been filled by saves without os.remove
C13_Witness ==
    /\ Returned /\ Len(call.pre) = n_models /\ n_models = MaxModels
    /\ Len(call.deletes) = 1 /\ Len(call.persists) = 1
    /\ Cardinality(persisted) > n_models

\* C14: in a replacement the tracker is updated (candidate in, old minimum
\* out) before any collaborator is called, and os.remove on the evicted
\* record's path is called before the save on the candidate's path.
C14_RemoveBeforeSave ==
    Evicting =>
        /\ Swapped
        /\ pc = "remove" => call.deletes = <<>> /\ call.persists = <<>>
        /\ pc = "save" => call.deletes = <<call.discard[3]>> /\ call.persists = <<>>
        /\ call.persists # <<>> =>
              call.deletes = <<call.discard[3]>> /\ call.persists = <<call.cand[3]>>

\* inside a replacement, after os.remove and before the save, the tracker
\* already holds the candidate and no longer the old minimum
C14_Witness ==
    /\ pc = "save" /\ Evicting
    /\ call.deletes = <<call.discard[3]>> /\ call.persists = <<>>
    /\ call.cand \in Retained /\ call.discard \notin Retained
    /\ filepath = call.cand[3] /\ filepath \notin files

\* the save of a replacement has raised after os.remove had returned
SaveFailedInReplacement ==
    pc = "idle" /\ Evicting /\ call.raised /\ call.persists # <<>>

\* no two records of the last call share a path (no epoch index came twice
\* among them) and no retained record's path was ever passed to os.remove
OwnPaths ==
    /\ Cardinality(PathsOf(call.pre) \cup {call.cand[3]}) = Len(call.pre) + 1
    /\ \A r \in Retained : r[3] \notin Range(deleteLog)

\* C15: (as claimed) when the save fails in a replacement after os.remove,
\* nothing is rolled back: the evicted file is gone, exactly n_models - 1
\* files exist, and the candidate stays retained with no file at its path;
\* stated for the calls whose records each have a path of their own.
C15_UnderFilledByOne ==
    (SaveFailedInReplacement /\ OwnPaths) =>
        /\ call.discard[3] \notin files
        /\ Cardinality(files) = n_models - 1
        /\ call.cand \in Retained
        /\ call.cand[3] \notin files

\* C15: (amended) when the save fails in a replacement after os.remove,
\* nothing is rolled back: the tracker keeps the candidate in place of the
\* old minimum, the evicted file is gone, the files are those of before the
\* call less the evicted one (the call wrote none), hence at most
\* n_models - 1, and exactly n_models - 1 with no file at the candidate's
\* path when before the call every retained record had a file of its own
\* and the candidate's epoch was new.
C15_NoRollback ==
    SaveFailedInReplacement =>
        /\ Swapped /\ call.cand \in Retained
        /\ call.discard[3] \in call.fs /\ call.discard[3] \notin files
        /\ files = call.fs \ {call.discard[3]}
        /\ Cardinality(files) <= n_models - 1
        /\ (/\ Cardinality(call.fs) = n_models
            /\ \A r \in Range(call.pre) : r[2] # call.cand[2]
            /\ call.fs = PathsOf(call.pre)) =>
               /\ Cardinality(files) = n_models - 1
               /\ call.cand[3] \notin files

\* the save of a replacement failed on a full, intact pool: one file short,
\* the candidate retained without a file
C15_Witness ==
    /\ SaveFailedInReplacement /\ n_models = MaxModels
    /\ Cardinality(call.fs) = n_models /\ call.fs = PathsOf(call.pre)
    /\ Cardinality(files) = n_models - 1
    /\ call.cand \in Retained /\ call.cand[3] \notin files

\* C16: once a collaborator call has failed, and whatever calls follow, the
\* tracker never holds more than n_models records, although a record may
\* be left without a file and a file without a record.
C16_NeverOverCapacityAfterFailure ==
    (failures > 0 \/ call.raised) =>
        /\ Len(tracker) <= n_models
        /\ Cardinality(Retained) <= n_models

\* after a failed os.remove a record has no file and a file has no record;
\* a later call has been evaluated and has returned, on a full pool
C16_Witness ==
    /\ failures > 0 /\ Returned /\ Evaluated
    /\ Len(tracker) = n_models /\ n_models = MaxModels
    /\ \E r \in Retained : r[3] \notin files
    /\ \E f \in files : f \notin PathsOf(tracker)

\* C17: the tracker never shrinks, and once it is full its minimum under the
\* total order never decreases.
C17_PoolOnlyImproves ==
    [][/\ Len(tracker') >= Len(tracker)
       /\ Len(tracker) >= n_models =>
             /\ Len(tracker') = Len(tracker)
             /\ ~Worse(MinOf(tracker'), MinOf(tracker))]_vars

\* a full pool whose minimum has risen: the last call evicted a record of a
\* lower score than every record now retained
C17_Witness ==
    /\ Returned /\ Evicting /\ Len(tracker) = n_models /\ n_models = MaxModels
    /\ \A r \in Retained : call.discard[1] < r[1]

\* C18: after every call the counter is at least 0 and below period, and it
\* is the number of calls made since the last call that reached the
\* interval, whether or not that call found the metric.
C18_CounterCountsSinceInterval ==
    /\ epochs_since_last_save >= 0
    /\ epochs_since_last_save < period
    /\ epochs_since_last_save = call.k - lastReached

\* one call after an interval that was reached without the metric
C18_Witness ==
    /\ period = MaxPeriod /\ lastReached = period /\ lastMiss = lastReached
    /\ call.k = lastReached + 1 /\ epochs_since_last_save = 1

====
